---- MODULE Spec2Model ----
(***************************************************************************)
(* Model of the FloatingBox tilt controller of src/Script.js (the second,  *)
(* per-box-configuration version, lines 172-455) with the configuration    *)
(* of src/config.js (lines 94-261).                                        *)
(*                                                                         *)
(* JavaScript numbers are IEEE-754 doubles.  They are modelled as records  *)
(* [k, v]: k = "fin" with v the value in units of 1/Scale (every result    *)
(* is rounded to the nearest unit, ties to even, as a double rounds to     *)
(* the nearest representable value), k = "inf" with v the sign, and        *)
(* k = "nan".  Signed zero is not distinguished (-0 === 0 in JavaScript).  *)
(***************************************************************************)
EXTENDS Integers, Sequences, FiniteSets, TLC

\* ------------------------------------------------------------------ bounds

\* Number of frame callbacks the host runs while the pointer is over the box
\* in one explored run (frames run while it is not are not limited: they
\* settle on a fixed point).
MaxHoverFrames == 2

\* Number of mousemove events handled while hovered in one explored run.
MaxMoves == 2

\* Largest CONFIG.bubbles.count explored.
MaxBubbles == 2

\* On a page with several panels: frame callbacks run, and mousemove events
\* handled, per panel.
MaxPanelFrames == 2
MaxPanelMoves == 1

\* ------------------------------------------------------------------ numbers

\* Units per 1.0 of a modelled number (three decimal places).
Scale == 1000

Fin(n) == [k |-> "fin", v |-> n]
NaN == [k |-> "nan", v |-> 0]
PosInf == [k |-> "inf", v |-> 1]
NegInf == [k |-> "inf", v |-> -1]

\* An integer literal of the source, e.g. 2, 100 or rect.width.
Num(i) == Fin(i * Scale)

\* Number.isFinite(a), for stating claims
IsFinite(a) == a.k = "fin"

Sign(n) == IF n > 0 THEN 1 ELSE IF n < 0 THEN -1 ELSE 0

\* n / d rounded to the nearest integer, ties to even (d > 0).
RoundDiv(n, d) ==
    LET q == n \div d
        r == n % d
    IN  IF 2 * r < d THEN q
        ELSE IF 2 * r > d THEN q + 1
        ELSE IF q % 2 = 0 THEN q ELSE q + 1

Inf(s) == IF s > 0 THEN PosInf ELSE NegInf

\* Unary minus.
Neg(a) ==
    IF a.k = "nan" THEN NaN
    ELSE IF a.k = "inf" THEN Inf(-a.v)
    ELSE Fin(-a.v)

\* a + b
Add(a, b) ==
    IF a.k = "nan" \/ b.k = "nan" THEN NaN
    ELSE IF a.k = "inf" /\ b.k = "inf" THEN (IF a.v = b.v THEN a ELSE NaN)
    ELSE IF a.k = "inf" THEN a
    ELSE IF b.k = "inf" THEN b
    ELSE Fin(a.v + b.v)

\* a - b
Sub(a, b) == Add(a, Neg(b))

\* a * b
Mul(a, b) ==
    IF a.k = "nan" \/ b.k = "nan" THEN NaN
    ELSE IF a.k = "inf" \/ b.k = "inf"
         THEN (IF Sign(a.v) * Sign(b.v) = 0 THEN NaN ELSE Inf(Sign(a.v) * Sign(b.v)))
    ELSE Fin(RoundDiv(a.v * b.v, Scale))

\* a / b
Div(a, b) ==
    IF a.k = "nan" \/ b.k = "nan" THEN NaN
    ELSE IF a.k = "inf" /\ b.k = "inf" THEN NaN
    ELSE IF a.k = "inf" THEN Inf(a.v * (IF b.v < 0 THEN -1 ELSE 1))
    ELSE IF b.k = "inf" THEN Fin(0)
    ELSE IF b.v = 0 THEN (IF a.v = 0 THEN NaN ELSE Inf(Sign(a.v)))
    ELSE IF b.v > 0 THEN Fin(RoundDiv(a.v * Scale, b.v))
    ELSE Fin(RoundDiv(-(a.v * Scale), -b.v))

\* Math.abs(a)
Abs(a) ==
    IF a.k = "nan" THEN NaN
    ELSE IF a.k = "inf" THEN PosInf
    ELSE Fin(IF a.v < 0 THEN -a.v ELSE a.v)

\* a < b (false when either side is NaN)
Lt(a, b) ==
    IF a.k = "nan" \/ b.k = "nan" THEN FALSE
    ELSE IF a.k = "inf" /\ b.k = "inf" THEN a.v < b.v
    ELSE IF a.k = "inf" THEN a.v < 0
    ELSE IF b.k = "inf" THEN b.v > 0
    ELSE a.v < b.v

\* a === b on numbers (NaN equals nothing, itself included), for stating claims
StrictEq(a, b) == a.k # "nan" /\ b.k # "nan" /\ a = b

\* a <= b, for stating claims
Le(a, b) == Lt(a, b) \/ StrictEq(a, b)

\* Math.floor(a) of a finite a, as an integer
Floor(a) == a.v \div Scale

\* Number.prototype.toFixed(2): the value rounded to two decimals.
ToFixed2(a) ==
    IF a.k = "fin" THEN Fin(RoundDiv(a.v, Scale \div 100) * (Scale \div 100)) ELSE a

\* ------------------------------------------------------------------ config

\* CONFIG.bubbles.colors
BubbleColors ==
    << "rgba(255, 107, 107, 1)", "rgba(147, 64, 255, 1)", "rgba(77, 171, 247, 1)",
       "rgba(255, 189, 89, 1)", "rgba(76, 217, 105, 1)", "rgba(252, 83, 154, 1)",
       "rgba(59, 178, 208, 1)", "rgba(255, 145, 48, 1)", "rgba(180, 129, 255, 1)",
       "rgba(255, 223, 89, 1)" >>

\* CONFIG.bubbles.gradients
BubbleGradients ==
    << "linear-gradient(45deg, rgba(255,107,107,1), rgba(255,189,89,1))",
       "linear-gradient(45deg, rgba(147,64,255,1), rgba(77,171,247,1))",
       "linear-gradient(45deg, rgba(252,83,154,1), rgba(180,129,255,1))",
       "linear-gradient(45deg, rgba(76,217,105,1), rgba(59,178,208,1))" >>

\* The entries of CONFIG that FloatingBox and BubbleManager read
\* (CONFIG.bubbles.count is the variable count).
CONFIG ==
    [bubbles |-> [size |-> [base |-> Num(50), variance |-> Num(30)],
                  colors |-> BubbleColors,
                  gradients |-> BubbleGradients,
                  animation |-> [duration |-> [base |-> Num(12), variance |-> Num(4)]]],
     box1 |-> [blur |-> "40px",
               rotationMax |-> Num(15),
               hoverHeight |-> Num(100),
               motionSpeed |-> Fin(Scale \div 4),
               glowOpacity |-> Fin(Scale \div 5),
               transitionDuration |-> "0.5s",
               transitionTiming |-> "ease-out",
               snapThreshold |-> Fin(Scale \div 100)],
     box2 |-> [blur |-> "20px",
               rotationMax |-> Num(15),
               hoverHeight |-> Num(100),
               motionSpeed |-> Fin(Scale \div 4),
               glowOpacity |-> Fin(Scale \div 5),
               transitionDuration |-> "0.5s",
               transitionTiming |-> "ease-out",
               snapThreshold |-> Fin(Scale \div 100)]]

\* this.boxConfig = CONFIG[this.box.id]
boxConfig == CONFIG["box1"]

Props == {"rotateX", "rotateY", "translateZ"}

Zero == [rotateX |-> Num(0), rotateY |-> Num(0), translateZ |-> Num(0)]

\* The values of CONFIG as generateCSSVariables sees them: a string, a
\* number (by the text String() gives it), an array, or an object with its
\* entries in the order of Object.entries.
Str(text) == [type |-> "string", text |-> text]
NumberOf(text) == [type |-> "number", text |-> text]
ArrayOf(items) == [type |-> "array", items |-> items]
ObjectOf(entries) == [type |-> "object", entries |-> entries]
Entry(key, value) == [key |-> key, value |-> value]

\* CONFIG.box1 and CONFIG.box2, which differ in blur only.
BoxTree(blur) ==
    ObjectOf(<< Entry("width", Str("300px")),
                Entry("height", Str("300px")),
                Entry("borderRadius", Str("30px")),
                Entry("rotationMax", NumberOf("15")),
                Entry("hoverHeight", NumberOf("100")),
                Entry("motionSpeed", NumberOf("0.25")),
                Entry("background", Str("rgba(0, 0, 0, 0.2)")),
                Entry("blur", Str(blur)),
                Entry("saturation", Str("180%")),
                Entry("borderColor", Str("rgba(255, 255, 255, 0.1)")),
                Entry("glowOpacity", NumberOf("0.2")),
                Entry("glowBlur", Str("50px")),
                Entry("glowColor", Str("rgba(255, 255, 255, 0.3)")),
                Entry("shadowBlur", Str("20px")),
                Entry("shadowColor", Str("rgba(0, 0, 0, 0.3)")),
                Entry("transitionDuration", Str("0.5s")),
                Entry("transitionTiming", Str("ease-out")),
                Entry("snapThreshold", NumberOf("0.01")) >>)

\* The whole CONFIG object of a page whose CONFIG.bubbles.count is n.
ConfigTree(n) ==
    ObjectOf(<<
        Entry("box1", BoxTree("40px")),
        Entry("box2", BoxTree("20px")),
        Entry("bubbles",
              ObjectOf(<< Entry("count", NumberOf(ToString(n))),
                          Entry("size", ObjectOf(<< Entry("base", NumberOf("50")),
                                                    Entry("variance", NumberOf("30")) >>)),
                          Entry("colors", ArrayOf(BubbleColors)),
                          Entry("gradients", ArrayOf(BubbleGradients)),
                          Entry("animation",
                                ObjectOf(<< Entry("duration",
                                    ObjectOf(<< Entry("base", NumberOf("12")),
                                                Entry("variance", NumberOf("4")) >>)) >>)) >>)),
        Entry("scene", ObjectOf(<< Entry("perspective", Str("1000px")),
                                   Entry("padding", Str("50px")),
                                   Entry("containerGap", Str("40px")) >>)) >>)

\* obj[key] of an object value
Get(obj, key) ==
    obj.entries[CHOOSE i \in 1 .. Len(obj.entries) : obj.entries[i].key = key].value

\* ------------------------------------------------------------------ inputs

\* The laid-out box (CONFIG.box1.width and height are 300px) and the box
\* collapsed to zero width and height, as this.box.getBoundingClientRect()
\* returns them.
BoxRect == [left |-> 100, top |-> 50, width |-> 300, height |-> 300]
ZeroRect == [left |-> 100, top |-> 50, width |-> 0, height |-> 0]

\* MouseEvent coordinates: the top-left corner and the centre of BoxRect,
\* and a point on its top edge.
TopLeft == [clientX |-> 100, clientY |-> 50]
Centre == [clientX |-> 250, clientY |-> 200]
TopEdge == [clientX |-> 250, clientY |-> 50]

\* The mousemove deliveries explored: an event and the bounding box the
\* handler finds when it runs.  On ZeroRect, TopEdge divides 150 by zero
\* horizontally and 0 by zero vertically.
PointerMoves ==
    { [e |-> TopLeft, rect |-> BoxRect],
      [e |-> Centre, rect |-> BoxRect],
      [e |-> TopEdge, rect |-> ZeroRect] }

\* A pointer one third across and two thirds down the laid-out box, and one
\* at its bottom-right corner.
ThirdPoint == [clientX |-> 200, clientY |-> 250]
BottomRight == [clientX |-> 400, clientY |-> 350]

\* The pointer-moves of a page whose pointer visits those two positions.
ThirdMoves ==
    { [e |-> ThirdPoint, rect |-> BoxRect],
      [e |-> BottomRight, rect |-> BoxRect] }

\* Values of Math.random(): the two ends of [0, 1), its middle, and the two
\* values either side of the 0.3 that getRandomColor tests.
RandomLow == Fin(0)
RandomHigh == Fin(Scale - 1)
RandomMid == Fin(Scale \div 2)
RandomBelowChance == Fin((3 * Scale) \div 10 - 1)
RandomAtChance == Fin((3 * Scale) \div 10)

\* The eight Math.random() results one createBubble consumes, by use.
BubbleDraws ==
    [size : {RandomLow, RandomHigh},
     duration : {RandomLow, RandomHigh},
     startDelay : {RandomLow, RandomHigh},
     driftX : {RandomMid},
     swayAmount : {RandomMid},
     chance : {RandomBelowChance, RandomAtChance},
     pick : {RandomLow, RandomHigh},
     left : {RandomMid}]

\* Array.prototype.join(","): the String() of an array of strings
RECURSIVE Join(_)
Join(items) ==
    IF Len(items) = 0 THEN ""
    ELSE IF Len(items) = 1 THEN items[1]
    ELSE items[1] \o "," \o Join(Tail(items))

\* The text setProperty receives for a leaf value: String(value)
CssText(value) ==
    IF value.type = "array" THEN Join(value.items) ELSE value.text

\* The cssKey of setVar without the prefix.
cssKey_NoPrefix(prefix, key) == key

\* The cssKey of setVar: prefix ? `${prefix}-${key}` : key
cssKey(prefix, key) == IF prefix # "" THEN prefix \o "-" \o key ELSE key

\* setVar(prefix, obj) of generateCSSVariables, over the entries of obj
\* that remain: the calls root.style.setProperty(name, text) it makes, in
\* order.
RECURSIVE setVar(_, _)
setVar(prefix, entries) ==
    IF Len(entries) = 0 THEN <<>>
    ELSE LET key == entries[1].key
             value == entries[1].value
         IN  (IF value.type = "object"
              THEN setVar(cssKey(prefix, key), value.entries)
              ELSE << [name |-> "--" \o cssKey(prefix, key), text |-> CssText(value)] >>)
             \o setVar(prefix, Tail(entries))

\* The custom properties a style without declarations holds after the given
\* setProperty calls: for each name the text of the last call, an empty text
\* removing the property.
StyleAfter(calls) ==
    LET last(n) == CHOOSE i \in 1 .. Len(calls) :
                       /\ calls[i].name = n
                       /\ \A j \in (i + 1) .. Len(calls) : calls[j].name # n
        names == { calls[i].name : i \in 1 .. Len(calls) }
    IN  [n \in { m \in names : calls[last(m)].text # "" } |-> calls[last(n)].text]

\* generateCSSVariables() on the CONFIG of a page with n bubbles: the custom
\* properties of document.documentElement.style after its four setVar calls.
CSSVariables(n) ==
    LET config == ConfigTree(n)
    IN  StyleAfter(setVar("scene", Get(config, "scene").entries)
                   \o setVar("box1", Get(config, "box1").entries)
                   \o setVar("box2", Get(config, "box2").entries)
                   \o setVar("bubbles", Get(config, "bubbles").entries))

\* ------------------------------------------------------------------ state

VARIABLES
    isHovered,   \* this.isHovered
    state,       \* this.state: [current, target]
    boxStyle,    \* this.box.style: [transition, transform]
    glowStyle,   \* this.glow.style: [opacity, mouseX, mouseY]
    rafPending,  \* frame callbacks requested and not yet run
    lastTick,    \* what the most recent updateTransforms read and computed
    lastEvent,   \* the most recent pointer event delivered
    lastWrite,   \* the most recent pointer event that assigned this.state.target
    frames,      \* frame callbacks run so far while hovered
    moves,       \* mousemove events handled so far while hovered
    count,       \* CONFIG.bubbles.count of the page
    container,   \* the children of BubbleManager's this.container, in order
    bubbleI,     \* the i of BubbleManager.initialize's loop
    panels,      \* on a page with several panels: the FloatingBox of each, by element id
    rootStyle    \* the custom properties of document.documentElement.style, by name

\* The variables of one FloatingBox.
boxVars == <<isHovered, state, boxStyle, glowStyle, rafPending, lastTick, lastEvent, lastWrite,
             frames, moves>>

\* The variables of the BubbleManager.
bubbleVars == <<count, container, bubbleI>>

\* What a FloatingBox callback of the single panel does not touch.
pageVars == <<count, container, bubbleI, panels, rootStyle>>

vars == <<isHovered, state, boxStyle, glowStyle, rafPending, lastTick, lastEvent, lastWrite,
          frames, moves, count, container, bubbleI, panels, rootStyle>>

NoTransition == [property |-> "", duration |-> "", timing |-> ""]

NoTick == [ran |-> FALSE, hovered |-> FALSE, before |-> Zero, target |-> Zero,
           lerped |-> Zero, snapped |-> FALSE]

NoEvent == [type |-> "none", e |-> [clientX |-> 0, clientY |-> 0],
            rect |-> [left |-> 0, top |-> 0, width |-> 0, height |-> 0],
            handled |-> FALSE]

\* new FloatingBox(element): the constructor and initialize()
BoxInit ==
    /\ isHovered = FALSE
    /\ state = [current |-> Zero, target |-> Zero]
    /\ boxStyle = [transition |-> NoTransition, transform |-> <<>>]
    /\ glowStyle = [opacity |-> <<>>, mouseX |-> <<>>, mouseY |-> <<>>]
    /\ rafPending = 1
    /\ lastTick = NoTick
    /\ lastEvent = NoEvent
    /\ lastWrite = NoEvent
    /\ frames = 0
    /\ moves = 0

\* A page configured with CONFIG.bubbles.count = 0: the BubbleManager's
\* container stays empty.
NoBubbles ==
    /\ count = 0
    /\ container = <<>>
    /\ bubbleI = 0

\* The page is followed through one panel only.
NoPanels == panels = <<>>

\* generateCSSVariables() has run.
StylesGenerated == rootStyle = CSSVariables(count)

\* The page after its DOMContentLoaded handler, seen from one panel.
Init == BoxInit /\ NoBubbles /\ NoPanels /\ StylesGenerated

\* ------------------------------------------------------------------ helpers

\* lerp with start and end exchanged in the body.
lerp_Swapped(start, end, factor) == Add(end, Mul(Sub(start, end), factor))

\* AnimationManager.lerp(start, end, factor)
lerp(start, end, factor) == Add(start, Mul(Sub(end, start), factor))

\* The loop with translateZ moving toward the configured hoverHeight
\* instead of the target's translateZ.
Interpolate_TowardHover(current, target) ==
    [rotateX |-> lerp(current.rotateX, target.rotateX, boxConfig.motionSpeed),
     rotateY |-> lerp(current.rotateY, target.rotateY, boxConfig.motionSpeed),
     translateZ |-> lerp(current.translateZ, boxConfig.hoverHeight, boxConfig.motionSpeed)]

\* The loop with the factor 1 + motionSpeed, stepping past the target.
Interpolate_Overshoot(current, target) ==
    [rotateX |-> lerp(current.rotateX, target.rotateX, Add(Num(1), boxConfig.motionSpeed)),
     rotateY |-> lerp(current.rotateY, target.rotateY, Add(Num(1), boxConfig.motionSpeed)),
     translateZ |-> lerp(current.translateZ, target.translateZ,
                         Add(Num(1), boxConfig.motionSpeed))]

\* The forEach loop of updateTransforms: every field of current moves toward
\* the same field of target by the factor boxConfig.motionSpeed.
Interpolate(current, target) ==
    [rotateX |-> lerp(current.rotateX, target.rotateX, boxConfig.motionSpeed),
     rotateY |-> lerp(current.rotateY, target.rotateY, boxConfig.motionSpeed),
     translateZ |-> lerp(current.translateZ, target.translateZ, boxConfig.motionSpeed)]

\* FloatingBox.isNearRest(), on the given value of this.state.current
isNearRest(current) ==
    \A prop \in Props : Lt(Abs(current[prop]), boxConfig.snapThreshold)

\* The rest-snap without the hover test.
RestSnap_AnyMode(hovered, current) ==
    IF isNearRest(current) THEN Zero ELSE current

\* The rest-snap with the hover test inverted.
RestSnap_Inverted(hovered, current) ==
    IF hovered /\ isNearRest(current) THEN Zero ELSE current

\* The rest-snap of updateTransforms, applied to the interpolated current.
RestSnap(hovered, current) ==
    IF ~hovered /\ isNearRest(current) THEN Zero ELSE current

\* The x of handleMouseMove: (e.clientX - rect.left) / rect.width * 2 - 1
NormX(e, rect) ==
    Sub(Mul(Div(Sub(Num(e.clientX), Num(rect.left)), Num(rect.width)), Num(2)), Num(1))

\* The y of handleMouseMove: (e.clientY - rect.top) / rect.height * 2 - 1
NormY(e, rect) ==
    Sub(Mul(Div(Sub(Num(e.clientY), Num(rect.top)), Num(rect.height)), Num(2)), Num(1))

\* The target without the sign change of rotateX.
MoveTarget_NoNegate(e, rect) ==
    [rotateX |-> Mul(NormY(e, rect), boxConfig.rotationMax),
     rotateY |-> Mul(NormX(e, rect), boxConfig.rotationMax),
     translateZ |-> boxConfig.hoverHeight]

\* The object handleMouseMove assigns to this.state.target
MoveTarget(e, rect) ==
    [rotateX |-> Mul(Neg(NormY(e, rect)), boxConfig.rotationMax),
     rotateY |-> Mul(NormX(e, rect), boxConfig.rotationMax),
     translateZ |-> boxConfig.hoverHeight]

\* n / d rounded to the nearest integer, ties upward (d > 0): the digit
\* choice of Number.prototype.toFixed.
RoundHalfUp(n, d) == (2 * n + d) \div (2 * d)

\* (offset / len * 100).toFixed(2) of updateGlowPosition.  The quotient is
\* taken at the precision the two printed decimals need (a double carries
\* about sixteen digits); a zero len gives the NaN or Infinity of the
\* division, which toFixed prints as such.
GlowPercent(offset, len) ==
    IF len = 0
    THEN ToFixed2(Mul(Div(Num(offset), Num(len)), Num(100)))
    ELSE Fin(RoundHalfUp(offset * 100 * 100, len) * (Scale \div 100))

\* updateGlowPosition with the two offsets exchanged.
GlowPosition_Swapped(e, rect) ==
    [mouseX |-> <<GlowPercent(e.clientY - rect.top, rect.width)>>,
     mouseY |-> <<GlowPercent(e.clientX - rect.left, rect.height)>>]

\* FloatingBox.updateGlowPosition(e, rect): the two custom properties
GlowPosition(e, rect) ==
    [mouseX |-> <<GlowPercent(e.clientX - rect.left, rect.width)>>,
     mouseY |-> <<GlowPercent(e.clientY - rect.top, rect.height)>>]

\* The template literal assigned to this.box.style.transform
TransformOf(current) == <<current.translateZ, current.rotateX, current.rotateY>>

\* array[index] of JavaScript: undefined outside 0 .. length - 1
ArrayAt(array, index) ==
    IF index >= 0 /\ index < Len(array) THEN array[index + 1] ELSE "undefined"

\* getRandomColor with Math.round in place of Math.floor.
getRandomColor_Round(chance, pick) ==
    IF Lt(chance, Fin((3 * Scale) \div 10))
    THEN ArrayAt(CONFIG.bubbles.gradients,
                 RoundDiv(Mul(pick, Num(Len(CONFIG.bubbles.gradients))).v, Scale))
    ELSE ArrayAt(CONFIG.bubbles.colors,
                 RoundDiv(Mul(pick, Num(Len(CONFIG.bubbles.colors))).v, Scale))

\* BubbleManager.getRandomColor(), with its two Math.random() results
getRandomColor(chance, pick) ==
    IF Lt(chance, Fin((3 * Scale) \div 10))
    THEN ArrayAt(CONFIG.bubbles.gradients,
                 Floor(Mul(pick, Num(Len(CONFIG.bubbles.gradients)))))
    ELSE ArrayAt(CONFIG.bubbles.colors,
                 Floor(Mul(pick, Num(Len(CONFIG.bubbles.colors)))))

\* The bubble with startDelay drawn over the longest duration instead of
\* the bubble's own.
Bubble_DelayOverLongest(i, r) ==
    LET size == Add(CONFIG.bubbles.size.base, Mul(r.size, CONFIG.bubbles.size.variance))
        duration == Add(CONFIG.bubbles.animation.duration.base,
                        Mul(r.duration, CONFIG.bubbles.animation.duration.variance))
        startDelay == Mul(r.startDelay,
                          Add(CONFIG.bubbles.animation.duration.base,
                              CONFIG.bubbles.animation.duration.variance))
        driftX == Mul(Sub(r.driftX, Fin(Scale \div 2)), Num(100))
        swayAmount == Mul(Sub(r.swayAmount, Fin(Scale \div 2)), Num(40))
    IN  [element |-> i,
         random |-> r,
         size |-> size,
         duration |-> duration,
         startDelay |-> startDelay,
         width |-> size,
         height |-> size,
         background |-> getRandomColor(r.chance, r.pick),
         left |-> Mul(r.left, Num(100)),
         driftX |-> driftX,
         swayAmount |-> swayAmount,
         floatUp |-> duration,
         sway |-> Mul(duration, Fin(Scale \div 2)),
         animationDelay |-> Neg(startDelay)]

\* The bubble with the start delay assigned as a positive animation delay.
Bubble_PositiveDelay(i, r) ==
    LET size == Add(CONFIG.bubbles.size.base, Mul(r.size, CONFIG.bubbles.size.variance))
        duration == Add(CONFIG.bubbles.animation.duration.base,
                        Mul(r.duration, CONFIG.bubbles.animation.duration.variance))
        startDelay == Mul(r.startDelay, duration)
        driftX == Mul(Sub(r.driftX, Fin(Scale \div 2)), Num(100))
        swayAmount == Mul(Sub(r.swayAmount, Fin(Scale \div 2)), Num(40))
    IN  [element |-> i,
         random |-> r,
         size |-> size,
         duration |-> duration,
         startDelay |-> startDelay,
         width |-> size,
         height |-> size,
         background |-> getRandomColor(r.chance, r.pick),
         left |-> Mul(r.left, Num(100)),
         driftX |-> driftX,
         swayAmount |-> swayAmount,
         floatUp |-> duration,
         sway |-> Mul(duration, Fin(Scale \div 2)),
         animationDelay |-> startDelay]

\* The element createBubble builds on the i-th call (i from 0) from the
\* Math.random() results r: its sampled values and the styles assigned.
Bubble(i, r) ==
    LET size == Add(CONFIG.bubbles.size.base, Mul(r.size, CONFIG.bubbles.size.variance))
        duration == Add(CONFIG.bubbles.animation.duration.base,
                        Mul(r.duration, CONFIG.bubbles.animation.duration.variance))
        startDelay == Mul(r.startDelay, duration)
        driftX == Mul(Sub(r.driftX, Fin(Scale \div 2)), Num(100))
        swayAmount == Mul(Sub(r.swayAmount, Fin(Scale \div 2)), Num(40))
    IN  [element |-> i,
         random |-> r,
         size |-> size,
         duration |-> duration,
         startDelay |-> startDelay,
         width |-> size,
         height |-> size,
         background |-> getRandomColor(r.chance, r.pick),
         left |-> Mul(r.left, Num(100)),
         driftX |-> driftX,
         swayAmount |-> swayAmount,
         floatUp |-> duration,
         sway |-> Mul(duration, Fin(Scale \div 2)),
         animationDelay |-> Neg(startDelay)]

\* ------------------------------------------------------------------ actions

\* handleMouseMove assigning the two rotations into the existing target
\* object and leaving its translateZ.
handleMouseMove_FieldWise(e, rect) ==
    /\ isHovered => moves < MaxMoves
    /\ moves' = IF isHovered THEN moves + 1 ELSE moves
    /\ lastEvent' = IF isHovered
                    THEN [type |-> "mousemove", e |-> e, rect |-> rect, handled |-> TRUE]
                    ELSE [NoEvent EXCEPT !.type = "mousemove"]
    /\ lastWrite' = IF isHovered THEN lastEvent' ELSE lastWrite
    /\ IF ~isHovered
       THEN UNCHANGED <<state, glowStyle>>
       ELSE /\ state' = [state EXCEPT !.target.rotateX = MoveTarget(e, rect).rotateX,
                                       !.target.rotateY = MoveTarget(e, rect).rotateY]
            /\ glowStyle' = [glowStyle EXCEPT !.mouseX = GlowPosition(e, rect).mouseX,
                                               !.mouseY = GlowPosition(e, rect).mouseY]
    /\ UNCHANGED <<isHovered, boxStyle, rafPending, lastTick, frames>>

\* handleMouseMove without the early return on !this.isHovered.
handleMouseMove_NoGuard(e, rect) ==
    /\ moves < MaxMoves
    /\ moves' = moves + 1
    /\ lastEvent' = IF isHovered
                    THEN [type |-> "mousemove", e |-> e, rect |-> rect, handled |-> TRUE]
                    ELSE [NoEvent EXCEPT !.type = "mousemove"]
    /\ lastWrite' = [type |-> "mousemove", e |-> e, rect |-> rect, handled |-> TRUE]
    /\ state' = [state EXCEPT !.target = MoveTarget(e, rect)]
    /\ glowStyle' = [glowStyle EXCEPT !.mouseX = GlowPosition(e, rect).mouseX,
                                       !.mouseY = GlowPosition(e, rect).mouseY]
    /\ UNCHANGED <<isHovered, boxStyle, rafPending, lastTick, frames>>

\* FloatingBox.handleMouseMove(e), with rect the bounding box it queries
handleMouseMove(e, rect) ==
    /\ isHovered => moves < MaxMoves
    /\ moves' = IF isHovered THEN moves + 1 ELSE moves
    /\ lastEvent' = IF isHovered
                    THEN [type |-> "mousemove", e |-> e, rect |-> rect, handled |-> TRUE]
                    ELSE [NoEvent EXCEPT !.type = "mousemove"]
    /\ lastWrite' = IF isHovered THEN lastEvent' ELSE lastWrite
    /\ IF ~isHovered
       THEN UNCHANGED <<state, glowStyle>>
       ELSE /\ state' = [state EXCEPT !.target = MoveTarget(e, rect)]
            /\ glowStyle' = [glowStyle EXCEPT !.mouseX = GlowPosition(e, rect).mouseX,
                                               !.mouseY = GlowPosition(e, rect).mouseY]
    /\ UNCHANGED <<isHovered, boxStyle, rafPending, lastTick, frames>>

\* handleMouseEnter without the assignment to this.box.style.transition.
handleMouseEnter_KeepTransition ==
    /\ isHovered' = TRUE
    /\ glowStyle' = [glowStyle EXCEPT !.opacity = <<boxConfig.glowOpacity>>]
    /\ lastEvent' = [NoEvent EXCEPT !.type = "mouseenter", !.handled = TRUE]
    /\ UNCHANGED <<state, boxStyle, rafPending, lastTick, lastWrite, frames, moves>>

\* FloatingBox.handleMouseEnter()
handleMouseEnter ==
    /\ isHovered' = TRUE
    /\ boxStyle' = [boxStyle EXCEPT !.transition =
                        [property |-> "none", duration |-> "", timing |-> ""]]
    /\ glowStyle' = [glowStyle EXCEPT !.opacity = <<boxConfig.glowOpacity>>]
    /\ lastEvent' = [NoEvent EXCEPT !.type = "mouseenter", !.handled = TRUE]
    /\ UNCHANGED <<state, rafPending, lastTick, lastWrite, frames, moves>>

\* handleMouseLeave without the reset of this.state.target.
handleMouseLeave_KeepTarget ==
    /\ isHovered' = FALSE
    /\ boxStyle' = [boxStyle EXCEPT !.transition =
                        [property |-> "transform",
                         duration |-> boxConfig.transitionDuration,
                         timing |-> boxConfig.transitionTiming]]
    /\ glowStyle' = [glowStyle EXCEPT !.opacity = <<Num(0)>>]
    /\ lastEvent' = [NoEvent EXCEPT !.type = "mouseleave", !.handled = TRUE]
    /\ lastWrite' = lastEvent'
    /\ UNCHANGED <<state, rafPending, lastTick, frames, moves>>

\* handleMouseLeave resetting this.state.current as well as the target.
handleMouseLeave_ResetCurrent ==
    /\ isHovered' = FALSE
    /\ state' = [current |-> Zero, target |-> Zero]
    /\ boxStyle' = [boxStyle EXCEPT !.transition =
                        [property |-> "transform",
                         duration |-> boxConfig.transitionDuration,
                         timing |-> boxConfig.transitionTiming]]
    /\ glowStyle' = [glowStyle EXCEPT !.opacity = <<Num(0)>>]
    /\ lastEvent' = [NoEvent EXCEPT !.type = "mouseleave", !.handled = TRUE]
    /\ lastWrite' = lastEvent'
    /\ UNCHANGED <<rafPending, lastTick, frames, moves>>

\* FloatingBox.handleMouseLeave()
handleMouseLeave ==
    /\ isHovered' = FALSE
    /\ state' = [state EXCEPT !.target = Zero]
    /\ boxStyle' = [boxStyle EXCEPT !.transition =
                        [property |-> "transform",
                         duration |-> boxConfig.transitionDuration,
                         timing |-> boxConfig.transitionTiming]]
    /\ glowStyle' = [glowStyle EXCEPT !.opacity = <<Num(0)>>]
    /\ lastEvent' = [NoEvent EXCEPT !.type = "mouseleave", !.handled = TRUE]
    /\ lastWrite' = lastEvent'
    /\ UNCHANGED <<rafPending, lastTick, frames, moves>>

\* FloatingBox.updateTransforms(): the value of this.state.current it leaves
updateTransforms(hovered, current, target) ==
    RestSnap(hovered, Interpolate(current, target))

\* updateFrame requesting the next frame only while the box has not come
\* to rest.
updateFrame_StopAtRest ==
    /\ rafPending > 0
    /\ isHovered => frames < MaxHoverFrames
    /\ frames' = IF isHovered THEN frames + 1 ELSE frames
    /\ state' = [state EXCEPT !.current = updateTransforms(isHovered, state.current, state.target)]
    /\ boxStyle' = [boxStyle EXCEPT !.transform =
                        TransformOf(updateTransforms(isHovered, state.current, state.target))]
    /\ lastTick' = [ran |-> TRUE, hovered |-> isHovered, before |-> state.current,
                    target |-> state.target,
                    lerped |-> Interpolate(state.current, state.target),
                    snapped |-> ~isHovered /\ isNearRest(Interpolate(state.current, state.target))]
    /\ rafPending' = IF ~isHovered /\ isNearRest(Interpolate(state.current, state.target))
                     THEN rafPending - 1
                     ELSE (rafPending - 1) + 1
    /\ UNCHANGED <<isHovered, glowStyle, lastEvent, lastWrite, moves>>

\* updateFrame writing the transform from the interpolated values, before
\* the rest-snap.
updateFrame_PreSnapTransform ==
    /\ rafPending > 0
    /\ isHovered => frames < MaxHoverFrames
    /\ frames' = IF isHovered THEN frames + 1 ELSE frames
    /\ state' = [state EXCEPT !.current = updateTransforms(isHovered, state.current, state.target)]
    /\ boxStyle' = [boxStyle EXCEPT !.transform =
                        TransformOf(Interpolate(state.current, state.target))]
    /\ lastTick' = [ran |-> TRUE, hovered |-> isHovered, before |-> state.current,
                    target |-> state.target,
                    lerped |-> Interpolate(state.current, state.target),
                    snapped |-> ~isHovered /\ isNearRest(Interpolate(state.current, state.target))]
    /\ rafPending' = (rafPending - 1) + 1
    /\ UNCHANGED <<isHovered, glowStyle, lastEvent, lastWrite, moves>>

\* FloatingBox.updateFrame(): one tick, then the next frame is requested
updateFrame ==
    /\ rafPending > 0
    /\ isHovered => frames < MaxHoverFrames
    /\ frames' = IF isHovered THEN frames + 1 ELSE frames
    /\ state' = [state EXCEPT !.current = updateTransforms(isHovered, state.current, state.target)]
    /\ boxStyle' = [boxStyle EXCEPT !.transform =
                        TransformOf(updateTransforms(isHovered, state.current, state.target))]
    /\ lastTick' = [ran |-> TRUE, hovered |-> isHovered, before |-> state.current,
                    target |-> state.target,
                    lerped |-> Interpolate(state.current, state.target),
                    snapped |-> ~isHovered /\ isNearRest(Interpolate(state.current, state.target))]
    /\ rafPending' = (rafPending - 1) + 1
    /\ UNCHANGED <<isHovered, glowStyle, lastEvent, lastWrite, moves>>

\* The loop of initialize running one iteration too many (i <= count).
createBubble_OneMore(r) ==
    /\ bubbleI <= count
    /\ container' = Append(container, Bubble(bubbleI, r))
    /\ bubbleI' = bubbleI + 1
    /\ UNCHANGED count

\* createBubble also run at the end of an animation cycle of the oldest
\* bubble, which it replaces.
createBubble_Recycling(r) ==
    /\ IF bubbleI < count
       THEN /\ container' = Append(container, Bubble(bubbleI, r))
            /\ bubbleI' = bubbleI + 1
       ELSE /\ count > 0
            /\ container' = Append(Tail(container), Bubble(bubbleI, r))
            /\ bubbleI' = bubbleI
    /\ UNCHANGED count

\* One iteration of the loop of BubbleManager.initialize: createBubble()
\* with the Math.random() results r, then i++.
createBubble(r) ==
    /\ bubbleI < count
    /\ container' = Append(container, Bubble(bubbleI, r))
    /\ bubbleI' = bubbleI + 1
    /\ UNCHANGED count

\* new BubbleManager() has returned: the loop of initialize has ended.
Populated == bubbleI >= count

Next ==
    \/ \E m \in PointerMoves : handleMouseMove(m.e, m.rect) /\ UNCHANGED pageVars
    \/ handleMouseEnter /\ UNCHANGED pageVars
    \/ handleMouseLeave /\ UNCHANGED pageVars
    \/ updateFrame /\ UNCHANGED pageVars

Spec == Init /\ [][Next]_vars

\* The same controller on a page whose pointer visits the positions of
\* ThirdMoves.
NextThirds ==
    \/ \E m \in ThirdMoves : handleMouseMove(m.e, m.rect) /\ UNCHANGED pageVars
    \/ handleMouseEnter /\ UNCHANGED pageVars
    \/ handleMouseLeave /\ UNCHANGED pageVars
    \/ updateFrame /\ UNCHANGED pageVars

ThirdsSpec == Init /\ [][NextThirds]_vars

\* The page when its DOMContentLoaded handler starts, CONFIG.bubbles.count
\* being any value up to MaxBubbles.
InitBubbles ==
    /\ BoxInit
    /\ count \in 0 .. MaxBubbles
    /\ container = <<>>
    /\ bubbleI = 0
    /\ NoPanels
    /\ rootStyle = <<>>

\* generateCSSVariables() has returned.
Generated == DOMAIN rootStyle # {}

\* generateCSSVariables(), the first call of the handler
generateCSSVariables ==
    /\ ~Generated
    /\ rootStyle' = CSSVariables(count)
    /\ UNCHANGED <<boxVars, bubbleVars, panels>>

\* The handler is synchronous: generateCSSVariables(), then new
\* BubbleManager(), and the panel's callbacks (of which the
\* pointer-enter and the frame callback are followed here) only after the
\* BubbleManager has been populated.
NextBubbles ==
    \/ generateCSSVariables
    \/ \E r \in BubbleDraws :
           Generated /\ createBubble(r) /\ UNCHANGED <<boxVars, panels, rootStyle>>
    \/ Generated /\ Populated /\ handleMouseEnter /\ UNCHANGED pageVars
    \/ Generated /\ Populated /\ updateFrame /\ UNCHANGED pageVars

BubbleSpec == InitBubbles /\ [][NextBubbles]_vars

\* ------------------------------------------------------------------ several panels

\* The ids of the elements of class floating-box on the page.
Panels == {"box1", "box2"}

\* The value undefined of JavaScript.
Undefined == [undefined |-> TRUE]

\* CONFIG[this.box.id]: undefined when the id is not a key of CONFIG
ConfigOf(id) == IF id \in DOMAIN CONFIG THEN CONFIG[id] ELSE Undefined

\* The constructor reading CONFIG.box1 whatever the element's id.
NewPanel_FirstConfig(id) ==
    [boxConfig |-> CONFIG["box1"],
     isHovered |-> FALSE,
     state |-> [current |-> Zero, target |-> Zero],
     boxStyle |-> [transition |-> NoTransition, transform |-> <<>>],
     glowStyle |-> [opacity |-> <<>>, mouseX |-> <<>>, mouseY |-> <<>>],
     rafPending |-> 1,
     error |-> "none",
     frames |-> 0,
     moves |-> 0]

\* new FloatingBox(element) for the element of the given id: the fields of
\* the instance after the constructor and initialize(), with the error a
\* callback of it has raised and the number of frame callbacks run and of
\* mousemove events handled so far.
NewPanel(id) ==
    [boxConfig |-> ConfigOf(id),
     isHovered |-> FALSE,
     state |-> [current |-> Zero, target |-> Zero],
     boxStyle |-> [transition |-> NoTransition, transform |-> <<>>],
     glowStyle |-> [opacity |-> <<>>, mouseX |-> <<>>, mouseY |-> <<>>],
     rafPending |-> 1,
     error |-> "none",
     frames |-> 0,
     moves |-> 0]

\* The object handleMouseMove assigns to this.state.target, on an instance
\* whose this.boxConfig is cfg
PanelTarget(cfg, e, rect) ==
    [rotateX |-> Mul(Neg(NormY(e, rect)), cfg.rotationMax),
     rotateY |-> Mul(NormX(e, rect), cfg.rotationMax),
     translateZ |-> cfg.hoverHeight]

\* updateTransforms on an instance whose this.boxConfig is cfg: the loop,
\* then the rest-snap
PanelTransforms(cfg, hovered, current, target) ==
    LET lerped == [prop \in Props |-> lerp(current[prop], target[prop], cfg.motionSpeed)]
        nearRest == \A prop \in Props : Lt(Abs(lerped[prop]), cfg.snapThreshold)
    IN  IF ~hovered /\ nearRest THEN Zero ELSE lerped

\* FloatingBox.handleMouseMove(e) on the instance of panel id
PanelMouseMove(id, e, rect) ==
    /\ panels[id].isHovered => panels[id].moves < MaxPanelMoves
    /\ panels' =
         IF ~panels[id].isHovered
         THEN panels
         ELSE IF panels[id].boxConfig = Undefined
         THEN [panels EXCEPT ![id].error = "TypeError", ![id].moves = @ + 1]
         ELSE [panels EXCEPT
                 ![id].state.target = PanelTarget(panels[id].boxConfig, e, rect),
                 ![id].glowStyle.mouseX = GlowPosition(e, rect).mouseX,
                 ![id].glowStyle.mouseY = GlowPosition(e, rect).mouseY,
                 ![id].moves = @ + 1]

\* FloatingBox.handleMouseEnter() on the instance of panel id
PanelMouseEnter(id) ==
    panels' =
      IF panels[id].boxConfig = Undefined
      THEN [panels EXCEPT
                 ![id].isHovered = TRUE,
                 ![id].boxStyle.transition =
                     [property |-> "none", duration |-> "", timing |-> ""],
                 ![id].error = "TypeError"]
      ELSE [panels EXCEPT
                 ![id].isHovered = TRUE,
                 ![id].boxStyle.transition =
                     [property |-> "none", duration |-> "", timing |-> ""],
                 ![id].glowStyle.opacity = <<panels[id].boxConfig.glowOpacity>>]

\* FloatingBox.handleMouseLeave() on the instance of panel id
PanelMouseLeave(id) ==
    panels' =
      IF panels[id].boxConfig = Undefined
      THEN [panels EXCEPT
                 ![id].isHovered = FALSE,
                 ![id].state.target = Zero,
                 ![id].error = "TypeError"]
      ELSE [panels EXCEPT
                 ![id].isHovered = FALSE,
                 ![id].state.target = Zero,
                 ![id].boxStyle.transition =
                     [property |-> "transform",
                      duration |-> panels[id].boxConfig.transitionDuration,
                      timing |-> panels[id].boxConfig.transitionTiming],
                 ![id].glowStyle.opacity = <<Num(0)>>]

\* updateFrame with this.state held in one object shared by all instances:
\* the tick of one panel writes the current of every panel.
PanelFrame_SharedState(id) ==
    /\ panels[id].rafPending > 0
    /\ panels[id].frames < MaxPanelFrames
    /\ LET current == PanelTransforms(panels[id].boxConfig, panels[id].isHovered,
                                      panels[id].state.current, panels[id].state.target)
       IN  panels' = [p \in DOMAIN panels |->
                        IF p = id
                        THEN [panels[p] EXCEPT
                                !.state.current = current,
                                !.boxStyle.transform = TransformOf(current),
                                !.rafPending = (@ - 1) + 1,
                                !.frames = @ + 1]
                        ELSE [panels[p] EXCEPT !.state.current = current]]

\* FloatingBox.updateFrame() on the instance of panel id
PanelFrame(id) ==
    /\ panels[id].rafPending > 0
    /\ panels[id].frames < MaxPanelFrames
    /\ IF panels[id].boxConfig = Undefined
       THEN panels' = [panels EXCEPT
                        ![id].error = "TypeError",
                        ![id].rafPending = @ - 1,
                        ![id].frames = @ + 1]
       ELSE LET current == PanelTransforms(panels[id].boxConfig, panels[id].isHovered,
                                           panels[id].state.current, panels[id].state.target)
            IN  panels' = [panels EXCEPT
                        ![id].state.current = current,
                        ![id].boxStyle.transform = TransformOf(current),
                        ![id].rafPending = (@ - 1) + 1,
                        ![id].frames = @ + 1]

\* The DOMContentLoaded handler on a page with the panels box1 and box2:
\* one FloatingBox per element of class floating-box.
InitTwo ==
    /\ BoxInit
    /\ NoBubbles
    /\ StylesGenerated
    /\ panels = [id \in Panels |-> NewPanel(id)]

\* The pointer positions over a panel: its top-left corner and its centre.
PanelMoves == {TopLeft, Centre}

\* The callbacks of the two instances.
NextTwo ==
    \/ \E id \in Panels, e \in PanelMoves :
           PanelMouseMove(id, e, BoxRect) /\ UNCHANGED <<boxVars, bubbleVars, rootStyle>>
    \/ \E id \in Panels : PanelMouseEnter(id) /\ UNCHANGED <<boxVars, bubbleVars, rootStyle>>
    \/ \E id \in Panels : PanelMouseLeave(id) /\ UNCHANGED <<boxVars, bubbleVars, rootStyle>>
    \/ \E id \in Panels : PanelFrame(id) /\ UNCHANGED <<boxVars, bubbleVars, rootStyle>>

TwoSpec == InitTwo /\ [][NextTwo]_vars

\* The ids of the elements of class floating-box on a page that has the
\* panel box1 next to the markup of the Readme's Basic Setup, which has no
\* id (this.box.id is then the empty string).
BasicPanels == {"box1", ""}

\* The DOMContentLoaded handler on that page.
InitBasic ==
    /\ BoxInit
    /\ NoBubbles
    /\ StylesGenerated
    /\ panels = [id \in BasicPanels |-> NewPanel(id)]

\* The callbacks of its two instances.
NextBasic ==
    \/ \E id \in BasicPanels, e \in PanelMoves :
           PanelMouseMove(id, e, BoxRect) /\ UNCHANGED <<boxVars, bubbleVars, rootStyle>>
    \/ \E id \in BasicPanels : PanelMouseEnter(id) /\ UNCHANGED <<boxVars, bubbleVars, rootStyle>>
    \/ \E id \in BasicPanels : PanelMouseLeave(id) /\ UNCHANGED <<boxVars, bubbleVars, rootStyle>>
    \/ \E id \in BasicPanels : PanelFrame(id) /\ UNCHANGED <<boxVars, bubbleVars, rootStyle>>

BasicSpec == InitBasic /\ [][NextBasic]_vars

\* ------------------------------------------------------------------ claims

\* The value of this.state.current after the most recent tick, as the tick
\* computed it.
TickResult == IF lastTick.snapped THEN Zero ELSE lastTick.lerped

\* C1: every tick, hovered or not, replaces each field f of current by
\* current[f] + (target[f] - current[f]) * interpolationFactor, computed from
\* that field alone; the value current then holds is that result (or zero
\* when the rest-snap of the same tick fired).
C1_TickInterpolates ==
    lastTick.ran =>
        /\ \A f \in Props :
               lastTick.lerped[f] =
                   Add(lastTick.before[f],
                       Mul(Sub(lastTick.target[f], lastTick.before[f]),
                           boxConfig.motionSpeed))
        /\ state.current = TickResult

\* A tick outside hover that moved current without snapping, after at least
\* one tick run in hover.
C1_Witness ==
    /\ lastTick.ran /\ ~lastTick.hovered /\ ~lastTick.snapped
    /\ frames > 0
    /\ \A f \in Props : lastTick.lerped[f] # lastTick.before[f]
    /\ state.current = lastTick.lerped

\* C2: a tick run while not hovered on a current whose three components are
\* all below restSnapThreshold in absolute value leaves current exactly
\* {0,0,0}.
C2_RestSnap ==
    ( /\ lastTick.ran
      /\ ~lastTick.hovered
      /\ \A f \in Props : Lt(Abs(lastTick.before[f]), boxConfig.snapThreshold) )
    => state.current = Zero

\* Such a tick whose input current was not already zero.
C2_Witness ==
    /\ lastTick.ran /\ ~lastTick.hovered
    /\ \A f \in Props : Lt(Abs(lastTick.before[f]), boxConfig.snapThreshold)
    /\ lastTick.before # Zero
    /\ state.current = Zero

\* C3 (as claimed): no reachable state holds a non-finite value in target or
\* current; a pointer-move on a degenerate bounding box leaves target as it
\* was.
C3_AlwaysFinite ==
    \A f \in Props : IsFinite(state.target[f]) /\ IsFinite(state.current[f])

\* The rotation a pointer at offset d of a box side of length len maps to,
\* (2 * d / len - 1) * rotationMax, from integers (exact when len divides).
ExpectedRotation(d, len) ==
    Fin(((2 * d - len) * boxConfig.rotationMax.v) \div len)

\* C4: a pointer-move handled while hovered on a box of positive width and
\* height sets target to {-(2*fy-1)*max, (2*fx-1)*max, hoverLiftDistance};
\* the centre gives {0, 0, lift}, the top-left corner {max, -max, lift}.
C4_MoveMapping ==
    ( /\ lastEvent.type = "mousemove" /\ lastEvent.handled
      /\ lastEvent.rect.width > 0 /\ lastEvent.rect.height > 0 )
    => LET dx == lastEvent.e.clientX - lastEvent.rect.left
           dy == lastEvent.e.clientY - lastEvent.rect.top
       IN  /\ state.target.rotateX = Neg(ExpectedRotation(dy, lastEvent.rect.height))
           /\ state.target.rotateY = ExpectedRotation(dx, lastEvent.rect.width)
           /\ state.target.translateZ = boxConfig.hoverHeight
           /\ (2 * dx = lastEvent.rect.width /\ 2 * dy = lastEvent.rect.height)
                  => state.target = [rotateX |-> Num(0), rotateY |-> Num(0),
                                     translateZ |-> boxConfig.hoverHeight]
           /\ (dx = 0 /\ dy = 0)
                  => state.target = [rotateX |-> boxConfig.rotationMax,
                                     rotateY |-> Neg(boxConfig.rotationMax),
                                     translateZ |-> boxConfig.hoverHeight]

\* A handled pointer-move at the top-left corner of the laid-out box.
C4_Witness ==
    /\ lastEvent.type = "mousemove" /\ lastEvent.handled
    /\ lastEvent.e = TopLeft /\ lastEvent.rect = BoxRect
    /\ state.target.rotateX = Num(15)

\* C5 (as claimed): in every tick, each field that differs from its target
\* ends strictly closer to the target than it started and on the same side
\* of it (the sign of target[f] - current[f] does not change).
C5_StrictlyCloser ==
    lastTick.ran =>
        \A f \in Props :
            ~StrictEq(lastTick.before[f], lastTick.target[f]) =>
                LET d0 == Sub(lastTick.target[f], lastTick.before[f])
                    d1 == Sub(lastTick.target[f], state.current[f])
                IN  /\ Lt(Abs(d1), Abs(d0))
                    /\ ~(Lt(d0, Num(0)) /\ Lt(Num(0), d1))
                    /\ ~(Lt(Num(0), d0) /\ Lt(d1, Num(0)))

\* C6: a tick that starts with current equal to target in all three fields
\* leaves current as it was, hovered or not.
C6_FixedPoint ==
    ( /\ lastTick.ran
      /\ \A f \in Props : StrictEq(lastTick.before[f], lastTick.target[f]) )
    => \A f \in Props : StrictEq(state.current[f], lastTick.before[f])

\* A tick run while hovered that started at the fixed point.
C6_Witness ==
    /\ lastTick.ran /\ lastTick.hovered
    /\ lastTick.before = lastTick.target
    /\ state.current = lastTick.before

\* C7: whenever the controller is not hovered, target is exactly {0,0,0};
\* until the first tick, current is still the {0,0,0} of construction.
C7_IdleTargetZero ==
    /\ ~isHovered => state.target = Zero
    /\ ~lastTick.ran => state.current = Zero

\* Not hovered after a pointer-leave that followed a handled pointer-move
\* and a tick.
C7_Witness ==
    /\ ~isHovered /\ lastEvent.type = "mouseleave"
    /\ moves > 0 /\ frames > 0
    /\ state.current # Zero
    /\ state.target = Zero

\* C8: no pointer handler changes any field of current; the tick changes
\* neither target nor the hover mode.
C8_WriteOwnership ==
    [][ /\ ( \/ \E m \in PointerMoves : handleMouseMove(m.e, m.rect)
             \/ handleMouseEnter
             \/ handleMouseLeave )
           => state'.current = state.current
        /\ updateFrame => (state'.target = state.target /\ isHovered' = isHovered)
      ]_vars

\* A pointer-leave handled while current is not zero, after a tick.
C8_Witness ==
    /\ lastEvent.type = "mouseleave" /\ lastTick.ran
    /\ state.current # Zero /\ state.target = Zero

\* The value of this.box.style.transition that handleMouseLeave restores.
TimedTransition ==
    [property |-> "transform", duration |-> "0.5s", timing |-> "ease-out"]

\* C9: hovered: transition is 'none' and the glow opacity is glowOpacity;
\* not hovered: neither holds, target is {0,0,0}, and (once a pointer-leave
\* has run) the transition is the timed transform transition and the glow
\* opacity is zero.
C9_ModeSideEffects ==
    /\ isHovered <=> boxStyle.transition.property = "none"
    /\ isHovered <=> glowStyle.opacity = <<Fin(Scale \div 5)>>
    /\ ~isHovered =>
           /\ state.target = Zero
           /\ \/ boxStyle.transition = NoTransition /\ glowStyle.opacity = <<>>
              \/ boxStyle.transition = TimedTransition /\ glowStyle.opacity = <<Num(0)>>
    /\ lastEvent.type = "mouseenter" => isHovered
    /\ lastEvent.type = "mouseleave" =>
           ~isHovered /\ boxStyle.transition = TimedTransition
                      /\ glowStyle.opacity = <<Num(0)>>

\* Hovered again after an earlier hover was left.
C9_Witness ==
    /\ isHovered /\ lastEvent.type = "mouseenter"
    /\ lastWrite.type = "mouseleave"
    /\ frames > 0

\* The target the given pointer event writes.
WrittenBy(w) == IF w.type = "mousemove" THEN MoveTarget(w.e, w.rect) ELSE Zero

\* C10: target is always, in all three fields, the value written by the
\* last pointer event that wrote it, and a tick interpolates every field
\* toward that value.
C10_LastWriteWins ==
    [][ /\ state'.target = WrittenBy(lastWrite')
        /\ updateFrame =>
               \A f \in Props :
                   lastTick'.lerped[f] =
                       Add(state.current[f],
                           Mul(Sub(WrittenBy(lastWrite)[f], state.current[f]),
                               boxConfig.motionSpeed))
      ]_vars

\* The first tick run in hover, after two handled pointer-moves, the last
\* of them at the centre.
C10_Witness ==
    /\ frames = 1 /\ moves = 2
    /\ lastTick.ran /\ lastTick.hovered /\ lastTick.before = Zero
    /\ lastWrite.type = "mousemove" /\ lastWrite.e = Centre /\ lastWrite.rect = BoxRect
    /\ lastTick.lerped = [rotateX |-> Num(0), rotateY |-> Num(0), translateZ |-> Num(25)]

\* C11: the tick loop never stops.  Construction requests one frame callback
\* and every frame callback runs one tick and requests exactly one more, so
\* in every reachable state the controller has exactly one frame callback
\* pending, whatever pointer events were delivered and whatever values
\* (finite or not) current and target hold.
C11_OnePendingFrame == rafPending = 1

\* The loop is still pending after ticks in hover, a pointer-leave and a
\* tick that brought the box to rest.
C11_Witness ==
    /\ rafPending = 1
    /\ frames > 0
    /\ lastEvent.type = "mouseleave"
    /\ lastTick.ran /\ lastTick.snapped

\* C13: the transform the box carries is the one the most recent tick wrote,
\* built from current as it is after the interpolation and after the
\* rest-snap of that tick, in the order translateZ, rotateX, rotateY; before
\* the first tick no transform has been written.
C13_TransformFromCurrent ==
    IF lastTick.ran
    THEN boxStyle.transform =
             <<state.current.translateZ, state.current.rotateX, state.current.rotateY>>
    ELSE boxStyle.transform = <<>>

\* A tick whose rest-snap replaced non-zero interpolated values, so the
\* transform written is the zero one and not the interpolated one.
C13_Witness ==
    /\ lastTick.ran /\ lastTick.snapped
    /\ \A f \in Props : lastTick.lerped[f] # Num(0)
    /\ boxStyle.transform = <<Num(0), Num(0), Num(0)>>

\* C19: a pointer-move delivered while the box is not hovered is ignored:
\* target, current, the hover flag and the glow (focal point and opacity)
\* are the same after it as before.
C19_IgnoredWhenIdle ==
    [][ (~isHovered /\ \E m \in PointerMoves : handleMouseMove(m.e, m.rect))
            => UNCHANGED <<state, isHovered, glowStyle, boxStyle>> ]_vars

\* An ignored pointer-move in a state where there was something to disturb:
\* current still away from rest and a glow focal point set by an earlier
\* handled move.
C19_Witness ==
    /\ lastEvent.type = "mousemove" /\ ~lastEvent.handled
    /\ ~isHovered
    /\ state.current # Zero /\ state.target = Zero
    /\ glowStyle.mouseX # <<>>

\* C18: after a pointer-leave with no further pointer event, finitely many
\* ticks bring current to exactly {0, 0, 0}.  Ticks outside hover are
\* deterministic, so a tick outside hover that leaves current where it was
\* will be repeated unchanged by every later tick: the settling can then only
\* be complete, that is, such a tick is only ever seen at current {0, 0, 0}.
C18_SettlesToRest ==
    (lastTick.ran /\ ~lastTick.hovered /\ ~isHovered /\ state.current = lastTick.before)
        => state.current = Zero

\* C20 as stated: a pointer-move handled while hovered at the fractions
\* (fx, fy) of a box of positive size sets the glow focal point to exactly
\* (100 * fx, 100 * fy) percent.
C20_GlowExact ==
    ( /\ lastEvent.type = "mousemove" /\ lastEvent.handled
      /\ lastEvent.rect.width > 0 /\ lastEvent.rect.height > 0 )
    => /\ glowStyle.mouseX[1].v * lastEvent.rect.width =
              100 * (lastEvent.e.clientX - lastEvent.rect.left) * Scale
       /\ glowStyle.mouseY[1].v * lastEvent.rect.height =
              100 * (lastEvent.e.clientY - lastEvent.rect.top) * Scale

\* v (in units of 1 / Scale) is a number of two decimals, the one nearest to
\* 100 * offset / len, and lies between 0 and 100 when the offset lies
\* between 0 and len.
IsRoundedPercent(v, offset, len) ==
    /\ v % (Scale \div 100) = 0
    /\ 2 * Abs(Fin(v * len - 100 * offset * Scale)).v <= len * (Scale \div 100)
    /\ (0 <= offset /\ offset <= len) => (0 <= v /\ v <= 100 * Scale)

\* C20, amended: a pointer-move handled while hovered at the fractions
\* (fx, fy) of a box of positive size sets the glow focal point to
\* (100 * fx, 100 * fy) percent rounded to two decimals, each between 0 and
\* 100 for a pointer inside the box; the focal point is a function of the
\* event and the bounding box alone, and the move leaves current as the last
\* tick left it.
C20_GlowRounded ==
    ( /\ lastEvent.type = "mousemove" /\ lastEvent.handled
      /\ lastEvent.rect.width > 0 /\ lastEvent.rect.height > 0 )
    => /\ glowStyle.mouseX[1].k = "fin" /\ glowStyle.mouseY[1].k = "fin"
       /\ IsRoundedPercent(glowStyle.mouseX[1].v,
                           lastEvent.e.clientX - lastEvent.rect.left, lastEvent.rect.width)
       /\ IsRoundedPercent(glowStyle.mouseY[1].v,
                           lastEvent.e.clientY - lastEvent.rect.top, lastEvent.rect.height)
       /\ lastTick.ran => state.current = TickResult

\* A handled pointer-move one third across and two thirds down the box,
\* delivered while current is away from rest: the focal point is
\* (33.33%, 66.67%).
C20_Witness ==
    /\ lastEvent.type = "mousemove" /\ lastEvent.handled
    /\ lastEvent.e = ThirdPoint /\ lastEvent.rect = BoxRect
    /\ state.current # Zero
    /\ glowStyle.mouseX = <<Fin(33330)>>
    /\ glowStyle.mouseY = <<Fin(66670)>>

\* C14: populating with count = N creates exactly N bubble elements in the
\* container, for every N >= 0, each appended exactly once: while the loop
\* runs the container holds the elements created so far, in order and
\* without repetition, and once it has ended the container holds exactly
\* count of them.
C14_ExactlyCount ==
    /\ bubbleI <= count
    /\ Len(container) = bubbleI
    /\ \A k \in 1 .. Len(container) : container[k].element = k - 1
    /\ Populated => Len(container) = count

\* A page populated with the largest count explored.
C14_Witness ==
    /\ count = MaxBubbles /\ Populated
    /\ Len(container) = MaxBubbles
    /\ lastTick.ran

\* C15: every created bubble has its diameter in
\* [sizeBase, sizeBase + sizeVariance], its duration in
\* [durationBase, durationBase + durationVariance] and its start delay in
\* [0, duration).
C15_ParameterRanges ==
    \A k \in 1 .. Len(container) :
        LET b == container[k]
        IN  /\ Le(CONFIG.bubbles.size.base, b.size)
            /\ Le(b.size, Add(CONFIG.bubbles.size.base, CONFIG.bubbles.size.variance))
            /\ Le(CONFIG.bubbles.animation.duration.base, b.duration)
            /\ Le(b.duration, Add(CONFIG.bubbles.animation.duration.base,
                                  CONFIG.bubbles.animation.duration.variance))
            /\ Le(Num(0), b.startDelay)
            /\ Lt(b.startDelay, b.duration)

\* A bubble of the shortest duration whose start delay came from the
\* largest draw, next to one of the largest size and a zero start delay.
C15_Witness ==
    /\ Len(container) >= 2
    /\ container[1].duration = CONFIG.bubbles.animation.duration.base
    /\ container[1].random.startDelay = RandomHigh
    /\ container[1].size = CONFIG.bubbles.size.base
    /\ container[2].size # CONFIG.bubbles.size.base
    /\ container[2].duration # CONFIG.bubbles.animation.duration.base
    /\ container[2].startDelay = Num(0)

\* The set of elements of an array.
Elements(array) == { array[k] : k \in 1 .. Len(array) }

\* C16: the background of every bubble is an element of the gradient
\* palette when the first draw of getRandomColor was below 0.3 and an
\* element of the solid-colour palette otherwise; it is never undefined.
C16_ColourFromPalette ==
    \A k \in 1 .. Len(container) :
        LET b == container[k]
        IN  /\ b.background # "undefined"
            /\ IF b.random.chance.v * 10 < 3 * Scale
               THEN b.background \in Elements(CONFIG.bubbles.gradients)
               ELSE b.background \in Elements(CONFIG.bubbles.colors)

\* The last gradient, picked with a first draw just below 0.3, next to the
\* last solid colour, picked with a first draw of exactly 0.3.
C16_Witness ==
    /\ Len(container) >= 2
    /\ container[1].random.chance = RandomBelowChance
    /\ container[1].random.pick = RandomHigh
    /\ container[1].background = CONFIG.bubbles.gradients[Len(CONFIG.bubbles.gradients)]
    /\ container[2].random.chance = RandomAtChance
    /\ container[2].random.pick = RandomHigh
    /\ container[2].background = CONFIG.bubbles.colors[Len(CONFIG.bubbles.colors)]

PanelStep(id) ==
    \/ \E e \in PanelMoves : PanelMouseMove(id, e, BoxRect)
    \/ PanelMouseEnter(id)
    \/ PanelMouseLeave(id)
    \/ PanelFrame(id)

\* What C12 names of an instance: its mode, current and target, glow state
\* and configuration (and the styles and the pending frame with them).
Instance(p) ==
    [isHovered |-> p.isHovered, state |-> p.state, glowStyle |-> p.glowStyle,
     boxConfig |-> p.boxConfig, boxStyle |-> p.boxStyle, rafPending |-> p.rafPending]

\* C12: with two controllers alive, a pointer event or tick of one leaves
\* the mode, current, target, glow state and configuration of the other
\* unchanged, and the configuration each one holds, before and after, is the
\* entry of CONFIG under its own element id.
C12_InstancesIndependent ==
    [][ \A id \in Panels :
          PanelStep(id) =>
              /\ \A other \in Panels \ {id} :
                     Instance(panels'[other]) = Instance(panels[other])
              /\ \A p \in Panels :
                     panels[p].boxConfig = CONFIG[p] /\ panels'[p].boxConfig = CONFIG[p] ]_vars

\* box1 is at rest and has never been entered while box2 is hovered, has a
\* target from a pointer-move and a current moved by its ticks; the two hold
\* different configurations.
C12_Witness ==
    /\ panels["box2"].isHovered
    /\ panels["box2"].state.target = PanelTarget(CONFIG["box2"], TopLeft, BoxRect)
    /\ panels["box2"].state.current # Zero
    /\ panels["box2"].frames = MaxPanelFrames
    /\ panels["box1"].frames > 0
    /\ panels["box1"].boxStyle.transform = TransformOf(Zero)
    /\ [Instance(panels["box1"]) EXCEPT !.boxStyle.transform = <<>>] = Instance(NewPanel("box1"))
    /\ panels["box1"].boxConfig # panels["box2"].boxConfig

\* C21: the animation delay of every bubble is the negation of its sampled
\* start delay, so it is above -duration and at most 0: the bubble is
\* already inside its first cycle at startup.
C21_NegativeDelay ==
    \A k \in 1 .. Len(container) :
        LET b == container[k]
        IN  /\ b.animationDelay = Neg(b.startDelay)
            /\ Lt(Neg(b.floatUp), b.animationDelay)
            /\ Le(b.animationDelay, Num(0))

\* A bubble of the shortest duration with the largest start delay drawn,
\* so its animation delay is strictly negative, just above -duration.
C21_Witness ==
    /\ Len(container) >= 1
    /\ container[1].random.startDelay = RandomHigh
    /\ container[1].floatUp = CONFIG.bubbles.animation.duration.base
    /\ Lt(container[1].animationDelay, Num(0))
    /\ Lt(Neg(Num(12)), container[1].animationDelay)
    /\ Lt(container[1].animationDelay, Neg(Num(11)))

\* Every pointer-move of ThirdMoves has its normalized coordinates in
\* [-1, 1], and the interpolation factor is in [0, 1].
C22_Premise ==
    /\ \A m \in ThirdMoves :
           /\ Le(Num(-1), NormX(m.e, m.rect)) /\ Le(NormX(m.e, m.rect), Num(1))
           /\ Le(Num(-1), NormY(m.e, m.rect)) /\ Le(NormY(m.e, m.rect), Num(1))
    /\ Le(Num(0), boxConfig.motionSpeed) /\ Le(boxConfig.motionSpeed, Num(1))

\* a lies in [lo, hi].
Within(a, lo, hi) == Le(lo, a) /\ Le(a, hi)

\* C22: provided every handled pointer-move has normalized coordinates in
\* [-1, 1] and the interpolation factor is in [0, 1], in every reachable
\* state the two rotations of target and of current are at most
\* rotationMax in absolute value and the translateZ of both lies in
\* [0, hoverHeight].
C22_OrientationBounds ==
    C22_Premise =>
        \A s \in {state.target, state.current} :
            /\ Le(Abs(s.rotateX), boxConfig.rotationMax)
            /\ Le(Abs(s.rotateY), boxConfig.rotationMax)
            /\ Within(s.translateZ, Num(0), boxConfig.hoverHeight)

\* The pointer at the bottom-right corner puts both rotations of target at
\* the bound, and ticks in hover have moved current toward it.
C22_Witness ==
    /\ C22_Premise
    /\ isHovered
    /\ state.target = [rotateX |-> Neg(boxConfig.rotationMax),
                       rotateY |-> boxConfig.rotationMax,
                       translateZ |-> boxConfig.hoverHeight]
    /\ frames = MaxHoverFrames
    /\ \A f \in Props : state.current[f] # Num(0) /\ state.current[f] # state.target[f]

\* C23: immediately after any tick run while not hovered, current is either
\* exactly {0, 0, 0} or has at least one component whose absolute value is
\* at least snapThreshold: the rest-snap is decided on the interpolated
\* values of the same tick and zeroes all components or none.
C23_AllOrNothing ==
    (lastTick.ran /\ ~lastTick.hovered) =>
        /\ state.current = Zero
             \/ \E f \in Props : Le(boxConfig.snapThreshold, Abs(state.current[f]))
        /\ state.current = Zero \/ state.current = lastTick.lerped

\* C24: a pointer-enter changes neither target nor current, and the
\* rest-snap never fires while hovered.  After an enter target is still what
\* the last pointer-move or pointer-leave wrote ({0, 0, 0} unless a move was
\* handled since the last leave), current is what the last tick left (zero
\* before the first), and a tick in hover leaves the interpolated values as
\* they are, however small.
C24_EnterKeepsState ==
    /\ lastEvent.type = "mouseenter" =>
           /\ state.target = WrittenBy(lastWrite)
           /\ lastWrite.type # "mousemove" => state.target = Zero
    /\ state.current = (IF lastTick.ran THEN TickResult ELSE Zero)
    /\ (lastTick.ran /\ lastTick.hovered) =>
           ~lastTick.snapped /\ state.current = lastTick.lerped

\* After an enter with no move since, a tick in hover has left current
\* non-zero with all three components below snapThreshold.
C24_Witness ==
    /\ isHovered /\ lastEvent.type = "mouseenter"
    /\ state.target = Zero
    /\ lastTick.ran /\ lastTick.hovered
    /\ \A f \in Props :
           /\ state.current[f] # Num(0)
           /\ Lt(Abs(state.current[f]), boxConfig.snapThreshold)

\* C25: every FloatingBox created at startup has a defined configuration,
\* so no callback of it raises an error and its frame loop keeps being
\* rescheduled (one frame callback pending in every state), also for an
\* element whose id is absent or is not a key of CONFIG.
C25_EveryPanelRuns ==
    \A id \in DOMAIN panels :
        /\ panels[id].frames > 0 => panels[id].boxConfig # Undefined
        /\ panels[id].error = "none"
        /\ panels[id].rafPending = 1

\* The leaves below the given entries: each with the keys leading to it.
RECURSIVE Leaves(_, _)
Leaves(path, entries) ==
    UNION { IF entries[i].value.type = "object"
            THEN Leaves(Append(path, entries[i].key), entries[i].value.entries)
            ELSE { [path |-> Append(path, entries[i].key), value |-> entries[i].value] }
            : i \in 1 .. Len(entries) }

\* '--' followed by the keys of the path joined with '-'.
RECURSIVE Dashed(_)
Dashed(path) ==
    IF Len(path) = 1 THEN path[1] ELSE path[1] \o "-" \o Dashed(Tail(path))

PropertyName(path) == "--" \o Dashed(path)

\* The non-object leaves reachable in CONFIG.scene, CONFIG.box1, CONFIG.box2
\* and CONFIG.bubbles.
ConfigLeaves == Leaves(<<>>, ConfigTree(count).entries)

\* The given style holds exactly one custom property per leaf of
\* ConfigLeaves, named by the leaf's key path and valued by the leaf.
OnePropertyPerLeaf(style) ==
    /\ DOMAIN style = { PropertyName(l.path) : l \in ConfigLeaves }
    /\ \A l \in ConfigLeaves : style[PropertyName(l.path)] = CssText(l.value)
    /\ Cardinality(DOMAIN style) = Cardinality(ConfigLeaves)
    /\ style["--box1-width"] = "300px"
    /\ style["--box2-blur"] = "20px"
    /\ style["--bubbles-size-base"] = "50"
    /\ style["--bubbles-count"] = ToString(count)

\* C26: generateCSSVariables leaves in the root style, for every non-object
\* leaf reachable in CONFIG.scene, CONFIG.box1, CONFIG.box2 and
\* CONFIG.bubbles, exactly one custom property, named '--' followed by the
\* key path joined with '-', whose value is that leaf (an array being a leaf,
\* by its text), and no other property: --box1-width is 300px and
\* --bubbles-size-base is 50.  No later step sets or removes a property.
C26_OnePropertyPerLeaf ==
    [][ /\ generateCSSVariables => OnePropertyPerLeaf(rootStyle')
        /\ Generated => rootStyle' = rootStyle ]_vars

\* The page loaded with the largest count explored: 46 properties, the
\* array of gradients among them as one comma-joined text.
C26_Witness ==
    /\ Generated /\ Populated /\ count = MaxBubbles
    /\ Cardinality(DOMAIN rootStyle) = 46
    /\ rootStyle["--bubbles-animation-duration-variance"] = "4"
    /\ rootStyle["--bubbles-gradients"] = Join(BubbleGradients)
    /\ rootStyle["--scene-containerGap"] = "40px"

====
